---- MODULE Spec2Model ----
(***************************************************************************)
(* Model of the homaya-algorithms crate: the three circuit constructors    *)
(* BernsteinVazirani, DeutschJozsa and GroverSearch, the gate sequences    *)
(* their build() emits, and their pure helpers.                            *)
(*                                                                         *)
(* An Option<T> is a sequence of length 0 (None) or 1 (Some(v)); the same  *)
(* encoding is used for "the call panicked" (<<>>) / "returned v" (<<v>>). *)
(* A String is a sequence of one-character strings.                        *)
(***************************************************************************)
EXTENDS Integers, Sequences, FiniteSets, TLC

\* ------------------------------------------------------------------ bounds
MaxN == 4          \* largest small qubit count drawn as input
MaxIter == 2       \* largest argument given to with_iterations
MaxLen == 3        \* longest measurement string given to is_constant

\* -------------------------------------------------------- program constants
UsizeBits == 64    \* width of usize (n_qubits, secret, target) on the target
PiFx == 3142       \* homaya_core::PI in fixed point, three decimals
FxScale == 1000    \* fixed-point scale used for the f64 arithmetic

\* ------------------------------------------------------------------ inputs
NQubitsInputs == (0..MaxN) \cup {UsizeBits}
ValueInputs == 0..(2^MaxN)
FunctionType == {"ConstantZero", "ConstantOne", "BalancedParity", "BalancedFirstBit"}
Chars == {"0", "1", "x"}
Measurements == UNION {[1..l -> Chars] : l \in 0..MaxLen}

VARIABLES
    overflow_checks,  \* build profile: TRUE = debug (overflow checks on)
    call,             \* the constructor call made: <<>> or <<[alg, n, p]>>
    self,             \* the constructor value: <<>> or <<value>>
    panicked,         \* the constructor call panicked
    requested,        \* argument of the latest with_iterations call, if any
    built,            \* latest build(): <<>> or <<[from, requested, circuit]>>
    binary,           \* latest secret_as_binary(): <<>> or <<[from, str]>>
    optimal,          \* latest optimal_iterations(): <<>> or <<[from, value]>>
    verdict           \* latest is_constant(): <<>> or <<[measurement, constant]>>

vars == <<overflow_checks, call, self, panicked, requested, built, binary,
          optimal, verdict>>

\* ------------------------------------------------------- integer primitives
\* x >> i on usize, i below the width
RECURSIVE Shr(_, _)
Shr(x, i) == IF i = 0 \/ x = 0 THEN x ELSE Shr(x \div 2, i - 1)

\* (x >> i) & 1
Bit(x, i) == Shr(x, i) % 2

\* 1 << n on usize: with overflow checks a shift by >= the width panics
\* (<<>>); without them the shift amount is masked to the width.
Shl1(n, checks) ==
    IF checks /\ n >= UsizeBits THEN <<>> ELSE <<2 ^ (n % UsizeBits)>>

\* ------------------------------------------------- the gate-sequence builder
CircuitNew(n) == [num_qubits |-> n, ops |-> <<>>]
Push(c, name, qs) == [c EXCEPT !.ops = Append(@, [op |-> name, qs |-> qs])]
H(c, i) == Push(c, "h", <<i>>)
X(c, i) == Push(c, "x", <<i>>)
Z(c, i) == Push(c, "z", <<i>>)
CX(c, ctl, tgt) == Push(c, "cx", <<ctl, tgt>>)
CCX(c, c1, c2, tgt) == Push(c, "ccx", <<c1, c2, tgt>>)
Measure(c, q, b) == Push(c, "measure", <<q, b>>)
MeasureAll(c) == Push(c, "measure_all", <<>>)
NumQubits(c) == c.num_qubits

\* the indices a loop "for i in lo..hi" visits, in order
Range(lo, hi) == [j \in 1..(hi - lo) |-> lo + j - 1]

\* the circuit after pushing the operations of the sequence gates, in order
PushAll(c, gates) == [c EXCEPT !.ops = @ \o gates]

\* the operation the last call of a builder chain pushed
Last(c) == c.ops[Len(c.ops)]

\* for i in lo..hi { circuit = circuit.h(i) }
HLoop(c, lo, hi) ==
    PushAll(c, [j \in 1..(hi - lo) |-> Last(H(c, Range(lo, hi)[j]))])

\* for i in lo..hi { circuit = circuit.x(i) }
XLoop(c, lo, hi) ==
    PushAll(c, [j \in 1..(hi - lo) |-> Last(X(c, Range(lo, hi)[j]))])

\* for i in lo..hi { circuit = circuit.measure(i, i) }
MeasureLoop(c, lo, hi) ==
    PushAll(c, [j \in 1..(hi - lo) |->
                   Last(Measure(c, Range(lo, hi)[j], Range(lo, hi)[j]))])

\* ------------------------------------------------------- Bernstein-Vazirani
BVNew(n_qubits, secret, checks) ==
    LET max_secret == Shl1(n_qubits, checks) IN
    IF max_secret = <<>> THEN <<>>
    ELSE IF secret < max_secret[1]
         THEN <<[kind |-> "bv", n_qubits |-> n_qubits, secret |-> secret]>>
         ELSE <<>>

\* for i in 0..n_qubits { if (secret >> i) & 1 == 1 { cx(i, ancilla) } }
BVOracleLoop(c, secret, ancilla, lo, hi) ==
    LET taken == SelectSeq(Range(lo, hi), LAMBDA i : Bit(secret, i) = 1)
    IN PushAll(c, [j \in 1..Len(taken) |-> Last(CX(c, taken[j], ancilla))])

\* variant: the closing Hadamard layer also covers the ancilla
BVBuildHadamardAncilla(s) ==
    LET total_qubits == s.n_qubits + 1
        ancilla == s.n_qubits
        c0 == CircuitNew(total_qubits)
        c1 == X(c0, ancilla)
        c2 == HLoop(c1, 0, total_qubits)
        c3 == BVOracleLoop(c2, s.secret, ancilla, 0, s.n_qubits)
        c4 == HLoop(c3, 0, total_qubits)
    IN MeasureLoop(c4, 0, s.n_qubits)

BVBuild(s) ==
    LET total_qubits == s.n_qubits + 1
        ancilla == s.n_qubits
        c0 == CircuitNew(total_qubits)
        c1 == X(c0, ancilla)
        c2 == HLoop(c1, 0, total_qubits)
        c3 == BVOracleLoop(c2, s.secret, ancilla, 0, s.n_qubits)
        c4 == HLoop(c3, 0, s.n_qubits)
    IN MeasureLoop(c4, 0, s.n_qubits)

\* binary digits of x, most significant first, no leading zeros ("0" for 0)
RECURSIVE BinaryDigits(_)
BinaryDigits(x) ==
    IF x < 2 THEN <<IF x = 1 THEN "1" ELSE "0">>
    ELSE Append(BinaryDigits(x \div 2), IF x % 2 = 1 THEN "1" ELSE "0")

\* left padding with '0' up to the width; never truncates
ZeroPad(str, width) ==
    IF Len(str) >= width THEN str
    ELSE [j \in 1..(width - Len(str)) |-> "0"] \o str

\* variant: format!("{:b}", self.secret), without the width
SecretAsBinaryUnpadded(s) == BinaryDigits(s.secret)

\* format!("{:0width$b}", self.secret, width = self.n_qubits)
SecretAsBinary(s) == ZeroPad(BinaryDigits(s.secret), s.n_qubits)

\* ------------------------------------------------------------ Deutsch-Jozsa
DJNew(n_qubits, function) ==
    IF n_qubits >= 1
    THEN <<[kind |-> "dj", n_qubits |-> n_qubits, function |-> function]>>
    ELSE <<>>

\* for i in 0..n_qubits { circuit = circuit.cx(i, ancilla) }
CXLoop(c, tgt, lo, hi) ==
    PushAll(c, [j \in 1..(hi - lo) |-> Last(CX(c, Range(lo, hi)[j], tgt))])

\* variant: balanced-first-bit dispatched to the parity arm
DJApplyOracleFirstBitAsParity(s, c, ancilla) ==
    CASE s.function = "ConstantZero" -> c
      [] s.function = "ConstantOne" -> X(c, ancilla)
      [] s.function = "BalancedParity" -> CXLoop(c, ancilla, 0, s.n_qubits)
      [] s.function = "BalancedFirstBit" -> CXLoop(c, ancilla, 0, s.n_qubits)

DJApplyOracle(s, c, ancilla) ==
    CASE s.function = "ConstantZero" -> c
      [] s.function = "ConstantOne" -> X(c, ancilla)
      [] s.function = "BalancedParity" -> CXLoop(c, ancilla, 0, s.n_qubits)
      [] s.function = "BalancedFirstBit" -> CX(c, 0, ancilla)

DJBuild(s) ==
    LET total_qubits == s.n_qubits + 1
        ancilla == s.n_qubits
        c0 == CircuitNew(total_qubits)
        c1 == X(c0, ancilla)
        c2 == HLoop(c1, 0, total_qubits)
        c3 == DJApplyOracle(s, c2, ancilla)
        c4 == HLoop(c3, 0, s.n_qubits)
    IN MeasureLoop(c4, 0, s.n_qubits)

\* measurement.chars().all(|c| c == '0'), stopping at the first other character
RECURSIVE AllZeroFrom(_, _)
AllZeroFrom(m, i) ==
    IF i > Len(m) THEN TRUE
    ELSE IF m[i] = "0" THEN AllZeroFrom(m, i + 1) ELSE FALSE

\* variant: only the first character is inspected
IsConstantFirstChar(measurement) ==
    Len(measurement) = 0 \/ measurement[1] = "0"

IsConstant(measurement) == AllZeroFrom(measurement, 1)

\* ------------------------------------------------------------------- Grover
GroverNew(n_qubits, target, checks) ==
    LET max_target == Shl1(n_qubits, checks) IN
    IF max_target = <<>> THEN <<>>
    ELSE IF target < max_target[1]
         THEN <<[kind |-> "grover", n_qubits |-> n_qubits, target |-> target,
                 iterations |-> <<>>]>>
         ELSE <<>>

\* variant: an override already set is kept
WithIterationsKeepFirst(s, iterations) ==
    IF s.iterations = <<>> THEN [s EXCEPT !.iterations = <<iterations>>] ELSE s

WithIterations(s, iterations) == [s EXCEPT !.iterations = <<iterations>>]

\* integer square root by bisection: the r with r*r <= v < (r+1)*(r+1)
RECURSIVE ISqrtIter(_, _, _)
ISqrtIter(v, lo, hi) ==
    IF hi - lo <= 1 THEN lo
    ELSE LET mid == (lo + hi) \div 2 IN
         IF mid * mid <= v THEN ISqrtIter(v, mid, hi) ELSE ISqrtIter(v, lo, mid)

\* n.sqrt() in fixed point
SqrtFx(n) == ISqrtIter(n * FxScale * FxScale, 0, n * FxScale + 1)

\* f64::round of a non-negative fixed-point value (scale FxScale^2 * 4)
RoundFx(v, scale) == (2 * v + scale) \div (2 * scale)

Max(a, b) == IF a >= b THEN a ELSE b

\* <<>> when the shift panics, else <<k>>
OptimalIterations(s, checks) ==
    LET sh == Shl1(s.n_qubits, checks) IN
    IF sh = <<>> THEN <<>>
    ELSE LET n == sh[1]
             opt == RoundFx(PiFx * SqrtFx(n), 4 * FxScale * FxScale)
         IN <<Max(opt, 1)>>

\* variant: the three-qubit arm is missing, three qubits take the general arm
GroverMultiControlledZNoToffoli(s, c) ==
    CASE s.n_qubits \in {0, 1} -> Z(c, 0)
      [] s.n_qubits = 2 -> H(CX(H(c, 1), 0, 1), 1)
      [] OTHER -> LET last == s.n_qubits - 1 IN
                  H(CXLoop(H(c, last), last, 0, last), last)

GroverMultiControlledZ(s, c) ==
    CASE s.n_qubits \in {0, 1} -> Z(c, 0)
      [] s.n_qubits = 2 -> H(CX(H(c, 1), 0, 1), 1)
      [] s.n_qubits = 3 -> H(CCX(H(c, 2), 0, 1, 2), 2)
      [] OTHER -> LET last == s.n_qubits - 1 IN
                  H(CXLoop(H(c, last), last, 0, last), last)

\* for i in 0..n_qubits { if (target >> i) & 1 == 0 { x(i) } }
GroverXLoop(c, target, lo, hi) ==
    LET taken == SelectSeq(Range(lo, hi), LAMBDA i : Bit(target, i) = 0)
    IN PushAll(c, [j \in 1..Len(taken) |-> Last(X(c, taken[j]))])

\* variant: the X gates are not undone after the block
GroverApplyOracleNoUndo(s, c) ==
    LET c1 == GroverXLoop(c, s.target, 0, s.n_qubits)
    IN GroverMultiControlledZ(s, c1)

GroverApplyOracle(s, c) ==
    LET c1 == GroverXLoop(c, s.target, 0, s.n_qubits)
        c2 == GroverMultiControlledZ(s, c1)
    IN GroverXLoop(c2, s.target, 0, s.n_qubits)

GroverApplyDiffusion(s, c) ==
    LET c1 == HLoop(c, 0, s.n_qubits)
        c2 == XLoop(c1, 0, s.n_qubits)
        c3 == GroverMultiControlledZ(s, c2)
        c4 == XLoop(c3, 0, s.n_qubits)
    IN HLoop(c4, 0, s.n_qubits)

\* for _ in 0..iterations { oracle; diffusion }
RECURSIVE GroverIterate(_, _, _)
GroverIterate(s, c, k) ==
    IF k = 0 THEN c
    ELSE GroverIterate(s, GroverApplyDiffusion(s, GroverApplyOracle(s, c)), k - 1)

\* <<>> when optimal_iterations panics, else <<circuit>>
GroverBuild(s, checks) ==
    LET iterations == IF s.iterations # <<>> THEN s.iterations
                      ELSE OptimalIterations(s, checks)
    IN IF iterations = <<>> THEN <<>>
       ELSE LET c0 == CircuitNew(s.n_qubits)
                c1 == HLoop(c0, 0, s.n_qubits)
                c2 == GroverIterate(s, c1, iterations[1])
            IN <<MeasureAll(c2)>>

\* ------------------------------------------------------------ state machine
Init ==
    /\ overflow_checks \in BOOLEAN
    /\ call = <<>>
    /\ self = <<>>
    /\ panicked = FALSE
    /\ requested = <<>>
    /\ built = <<>>
    /\ binary = <<>>
    /\ optimal = <<>>
    /\ verdict = <<>>

Construct(c, r) ==
    /\ call = <<>>
    /\ call' = <<c>>
    /\ self' = r
    /\ panicked' = (r = <<>>)
    /\ UNCHANGED <<overflow_checks, requested, built, binary, optimal, verdict>>

NewBernsteinVazirani(n, s) ==
    Construct([alg |-> "bv", n |-> n, p |-> s], BVNew(n, s, overflow_checks))

NewDeutschJozsa(n, f) ==
    Construct([alg |-> "dj", n |-> n, p |-> f], DJNew(n, f))

NewGroverSearch(n, t) ==
    Construct([alg |-> "grover", n |-> n, p |-> t], GroverNew(n, t, overflow_checks))

Live(kind) == self # <<>> /\ self[1].kind = kind

CallWithIterations(k) ==
    /\ Live("grover")
    /\ self' = <<WithIterations(self[1], k)>>
    /\ requested' = <<k>>
    /\ UNCHANGED <<overflow_checks, call, panicked, built, binary, optimal, verdict>>

CallBVBuild ==
    /\ Live("bv")
    /\ built' = <<[from |-> self[1], requested |-> requested,
                   circuit |-> BVBuild(self[1])]>>
    /\ UNCHANGED <<overflow_checks, call, self, panicked, requested, binary,
                   optimal, verdict>>

CallDJBuild ==
    /\ Live("dj")
    /\ built' = <<[from |-> self[1], requested |-> requested,
                   circuit |-> DJBuild(self[1])]>>
    /\ UNCHANGED <<overflow_checks, call, self, panicked, requested, binary,
                   optimal, verdict>>

CallGroverBuild ==
    /\ Live("grover")
    /\ LET r == GroverBuild(self[1], overflow_checks) IN
       IF r = <<>>
       THEN /\ panicked' = TRUE
            /\ self' = <<>>
            /\ UNCHANGED built
       ELSE /\ built' = <<[from |-> self[1], requested |-> requested,
                           circuit |-> r[1]]>>
            /\ UNCHANGED <<self, panicked>>
    /\ UNCHANGED <<overflow_checks, call, requested, binary, optimal, verdict>>

CallSecretAsBinary ==
    /\ Live("bv")
    /\ binary' = <<[from |-> self[1], str |-> SecretAsBinary(self[1])]>>
    /\ UNCHANGED <<overflow_checks, call, self, panicked, requested, built,
                   optimal, verdict>>

CallOptimalIterations ==
    /\ Live("grover")
    /\ LET r == OptimalIterations(self[1], overflow_checks) IN
       IF r = <<>>
       THEN /\ panicked' = TRUE
            /\ self' = <<>>
            /\ UNCHANGED optimal
       ELSE /\ optimal' = <<[from |-> self[1], value |-> r[1]]>>
            /\ UNCHANGED <<self, panicked>>
    /\ UNCHANGED <<overflow_checks, call, requested, built, binary, verdict>>

CallIsConstant(m) ==
    /\ Live("dj")
    /\ verdict' = <<[measurement |-> m, constant |-> IsConstant(m)]>>
    /\ UNCHANGED <<overflow_checks, call, self, panicked, requested, built,
                   binary, optimal>>

Next ==
    \/ \E n \in NQubitsInputs, s \in ValueInputs : NewBernsteinVazirani(n, s)
    \/ \E n \in NQubitsInputs, f \in FunctionType : NewDeutschJozsa(n, f)
    \/ \E n \in NQubitsInputs, t \in ValueInputs : NewGroverSearch(n, t)
    \/ \E k \in 0..MaxIter : CallWithIterations(k)
    \/ CallBVBuild
    \/ CallDJBuild
    \/ CallGroverBuild
    \/ CallSecretAsBinary
    \/ CallOptimalIterations
    \/ \E m \in Measurements : CallIsConstant(m)

Spec == Init /\ [][Next]_vars

\* ------------------------------------------------- vocabulary of the claims
\* bit i of a drawn value, by division (drawn values are at most 2^MaxN)
BitOf(v, i) == IF i > MaxN THEN 0 ELSE (v \div (2 ^ i)) % 2

OneBits(v, n) == {i \in 0..(n - 1) : BitOf(v, i) = 1}
ZeroBits(v, n) == {i \in 0..(n - 1) : BitOf(v, i) = 0}

\* v < 2^n over the integers; every usize is below 2^n once n reaches the width
Below2Pow(v, n) == n >= UsizeBits \/ v < 2 ^ n

Gate(name, qs) == [op |-> name, qs |-> qs]

\* the qubit indices an operation addresses
OpQubits(o) ==
    CASE o.op = "measure" -> {o.qs[1]}
      [] o.op = "measure_all" -> {}
      [] OTHER -> {o.qs[j] : j \in 1..Len(o.qs)}

\* ---------------------------------------------------------------------- C1
\* C1: construction fails exactly on an out-of-range parameter:
\* BernsteinVazirani::new(n, s) and GroverSearch::new(n, t) fail iff the value
\* is >= 2^n, DeutschJozsa::new(n, f) fails iff n < 1; a failing construction
\* leaves no constructor value and a successful one holds exactly the given
\* parameters (Grover with no iteration override until with_iterations).
C1_FailsIffOutOfRange ==
    call # <<>> =>
        LET c == call[1]
            in_range == IF c.alg = "dj" THEN c.n >= 1 ELSE Below2Pow(c.p, c.n)
        IN /\ (self = <<>>) <=> ~in_range
           /\ panicked <=> ~in_range
           /\ self # <<>> =>
                /\ self[1].kind = c.alg
                /\ self[1].n_qubits = c.n
                /\ c.alg = "bv" => self[1].secret = c.p
                /\ c.alg = "dj" => self[1].function = c.p
                /\ c.alg = "grover" =>
                      self[1].target = c.p /\ self[1].iterations = requested

\* C1 below the word width: the claim restricted to n < UsizeBits holds
C1_BelowWidth ==
    (call # <<>> /\ call[1].n < UsizeBits) => C1_FailsIffOutOfRange

\* ---------------------------------------------------------------------- C2
\* C2: for n >= 1 and s < 2^n, BernsteinVazirani::build() is over n+1 qubits
\* and is X(n); H(0..n); CX(i -> n) for exactly the 1 bits i of s, ascending;
\* H(0..n-1); measure(i -> i) for i = 0..n-1. The ancilla is never measured and
\* no gate follows the first measurement.
C2_BVSequence ==
    (built # <<>> /\ built[1].from.kind = "bv" /\ built[1].from.n_qubits >= 1) =>
        LET n == built[1].from.n_qubits
            s == built[1].from.secret
            ops == built[1].circuit.ops
            m == Cardinality(OneBits(s, n))
            cx0 == n + 2
            h0 == n + 2 + m
            m0 == 2 * n + 2 + m
        IN /\ NumQubits(built[1].circuit) = n + 1
           /\ Len(ops) = 3 * n + 2 + m
           /\ ops[1] = Gate("x", <<n>>)
           /\ \A i \in 0..n : ops[2 + i] = Gate("h", <<i>>)
           /\ \A j \in 1..m : /\ ops[cx0 + j].op = "cx"
                              /\ ops[cx0 + j].qs[2] = n
                              /\ ops[cx0 + j].qs[1] \in OneBits(s, n)
           /\ \A j \in 1..(m - 1) : ops[cx0 + j].qs[1] < ops[cx0 + j + 1].qs[1]
           /\ \A i \in 0..(n - 1) : ops[h0 + 1 + i] = Gate("h", <<i>>)
           /\ \A i \in 0..(n - 1) : ops[m0 + 1 + i] = Gate("measure", <<i, i>>)
           /\ \A j \in 1..Len(ops) : ops[j].op = "measure" => ops[j].qs[1] # n
           /\ \A j \in 1..Len(ops) : \A k \in j..Len(ops) :
                 ops[j].op = "measure" => ops[k].op = "measure"
           /\ Cardinality({j \in 1..Len(ops) : ops[j].op = "cx"}) = m

C2_Witness ==
    /\ built # <<>>
    /\ built[1].from.kind = "bv"
    /\ built[1].from.n_qubits = 3
    /\ built[1].from.secret = 5

\* ---------------------------------------------------------------------- C3
\* C3: for n >= 1 and each selector, DeutschJozsa::build() is over n+1 qubits
\* and is X(n); H(0..n); the oracle; H(0..n-1); measure(i -> i), the oracle
\* being nothing (constant-zero), X(n) (constant-one), CX(i -> n) for every
\* i = 0..n-1 ascending (balanced-parity), CX(0 -> n) (balanced-first-bit).
C3_Oracle(f, n) ==
    CASE f = "ConstantZero" -> <<>>
      [] f = "ConstantOne" -> <<Gate("x", <<n>>)>>
      [] f = "BalancedParity" -> [j \in 1..n |-> Gate("cx", <<j - 1, n>>)]
      [] f = "BalancedFirstBit" -> <<Gate("cx", <<0, n>>)>>

C3_DJSequence ==
    (built # <<>> /\ built[1].from.kind = "dj" /\ built[1].from.n_qubits >= 1) =>
        LET n == built[1].from.n_qubits
            ops == built[1].circuit.ops
            orc == C3_Oracle(built[1].from.function, n)
            m == Len(orc)
        IN /\ NumQubits(built[1].circuit) = n + 1
           /\ Len(ops) = 3 * n + 2 + m
           /\ ops[1] = Gate("x", <<n>>)
           /\ \A i \in 0..n : ops[2 + i] = Gate("h", <<i>>)
           /\ \A j \in 1..m : ops[n + 2 + j] = orc[j]
           /\ \A i \in 0..(n - 1) : ops[n + 2 + m + 1 + i] = Gate("h", <<i>>)
           /\ \A i \in 0..(n - 1) :
                 ops[2 * n + 2 + m + 1 + i] = Gate("measure", <<i, i>>)

C3_Witness ==
    /\ built # <<>>
    /\ built[1].from.kind = "dj"
    /\ built[1].from.n_qubits = 3
    /\ built[1].from.function = "BalancedParity"

\* ---------------------------------------------------------------------- C4
\* the operations a step pushes onto an empty sequence
StepOps(c) == c.ops
OracleOps(s) == StepOps(GroverApplyOracle(s, CircuitNew(s.n_qubits)))
DiffusionOps(s) == StepOps(GroverApplyDiffusion(s, CircuitNew(s.n_qubits)))

\* the iteration count build() has to use: the latest with_iterations
\* argument if there was a call, else optimal_iterations()
ChosenK(b) ==
    IF b.requested # <<>> THEN b.requested[1]
    ELSE OptimalIterations(b.from, overflow_checks)[1]

\* C4: for n >= 1 and t < 2^n, GroverSearch::build() is over exactly n qubits
\* and is H(0..n-1), then k times {oracle step; diffusion step}, then one
\* measure-all as the last operation, with k the latest with_iterations
\* argument (0 included) or else optimal_iterations(); with_iterations changes
\* neither n nor the target.
C4_GroverSequence ==
    /\ (self # <<>> /\ self[1].kind = "grover") =>
          /\ self[1].n_qubits = call[1].n
          /\ self[1].target = call[1].p
          /\ self[1].iterations = requested
    /\ (built # <<>> /\ built[1].from.kind = "grover"
            /\ built[1].from.n_qubits >= 1) =>
        LET s == built[1].from
            n == s.n_qubits
            ops == built[1].circuit.ops
            k == ChosenK(built[1])
            pair == OracleOps(s) \o DiffusionOps(s)
            w == Len(pair)
        IN /\ NumQubits(built[1].circuit) = n
           /\ s.n_qubits = call[1].n /\ s.target = call[1].p
           /\ Len(ops) = n + k * w + 1
           /\ \A i \in 0..(n - 1) : ops[1 + i] = Gate("h", <<i>>)
           /\ \A r \in 0..(k - 1) : \A j \in 1..w : ops[n + r * w + j] = pair[j]
           /\ ops[Len(ops)] = Gate("measure_all", <<>>)
           /\ \A j \in 1..(Len(ops) - 1) : ops[j].op # "measure_all"
           /\ k = 0 => ops = [j \in 1..(n + 1) |->
                                 IF j <= n THEN Gate("h", <<j - 1>>)
                                 ELSE Gate("measure_all", <<>>)]

C4_Witness ==
    /\ built # <<>>
    /\ built[1].from.kind = "grover"
    /\ built[1].from.n_qubits = 3
    /\ built[1].from.target = 5
    /\ built[1].requested = <<2>>
    /\ requested = <<0>>

\* ---------------------------------------------------------------------- C5
\* C5: build() is total on every accepted constructor value (GroverSearch with
\* n = 0, target 0 included) and every gate and measurement of the returned
\* sequence addresses only qubit indices strictly below its qubit count.
C5_BuildTotalInRange ==
    /\ (self # <<>> /\ self[1].kind = "grover") =>
          GroverBuild(self[1], overflow_checks) # <<>>
    /\ built # <<>> =>
          \A j \in 1..Len(built[1].circuit.ops) :
             \A q \in OpQubits(built[1].circuit.ops[j]) :
                q >= 0 /\ q < NumQubits(built[1].circuit)

\* C5 for n >= 1: outside the zero-qubit Grover case every index is in range
C5_InRangeFromOneQubit ==
    (built # <<>> /\ built[1].from.n_qubits >= 1) =>
          \A j \in 1..Len(built[1].circuit.ops) :
             \A q \in OpQubits(built[1].circuit.ops[j]) :
                q >= 0 /\ q < NumQubits(built[1].circuit)

\* ---------------------------------------------------------------------- C6
\* Gate semantics on amplitude vectors over the basis states 0..2^n-1 (qubit i
\* holds bit i of the index). Hadamard is kept unnormalised, so a sequence
\* with h Hadamards yields sqrt(2)^h times the true amplitudes.
QBit(b, i) == (b \div (2 ^ i)) % 2
Flip(b, i) == IF QBit(b, i) = 1 THEN b - 2 ^ i ELSE b + 2 ^ i

ApplyGate(o, v) ==
    LET q == o.qs IN
    CASE o.op = "x" -> [b \in DOMAIN v |-> v[Flip(b, q[1])]]
      [] o.op = "z" -> [b \in DOMAIN v |-> IF QBit(b, q[1]) = 1 THEN 0 - v[b] ELSE v[b]]
      [] o.op = "h" -> [b \in DOMAIN v |->
                           IF QBit(b, q[1]) = 0 THEN v[b] + v[Flip(b, q[1])]
                           ELSE v[Flip(b, q[1])] - v[b]]
      [] o.op = "cx" -> [b \in DOMAIN v |->
                           IF QBit(b, q[1]) = 1 THEN v[Flip(b, q[2])] ELSE v[b]]
      [] o.op = "ccx" -> [b \in DOMAIN v |->
                           IF QBit(b, q[1]) = 1 /\ QBit(b, q[2]) = 1
                           THEN v[Flip(b, q[3])] ELSE v[b]]

RECURSIVE RunFrom(_, _, _)
RunFrom(ops, j, v) ==
    IF j > Len(ops) THEN v ELSE RunFrom(ops, j + 1, ApplyGate(ops[j], v))

Basis(n, b) == [x \in 0..(2 ^ n - 1) |-> IF x = b THEN 1 ELSE 0]
Scaled(v, a) == [x \in DOMAIN v |-> a * v[x]]
HCount(ops) == Cardinality({j \in 1..Len(ops) : ops[j].op = "h"})

\* the oracle step multiplies |t> by -1 and fixes every other basis state
FlipsExactly(ops, n, t) ==
    \A b \in 0..(2 ^ n - 1) :
        RunFrom(ops, 1, Basis(n, b)) =
            Scaled(Basis(n, b), (IF b = t THEN -1 ELSE 1) * 2 ^ (HCount(ops) \div 2))

\* C6: for n >= 1 and t < 2^n the gate sequence of one Grover oracle step
\* flips the phase of exactly the target basis state.
C6_OracleFlipsTarget ==
    (self # <<>> /\ self[1].kind = "grover"
        /\ self[1].n_qubits >= 1 /\ self[1].n_qubits <= MaxN) =>
        FlipsExactly(OracleOps(self[1]), self[1].n_qubits, self[1].target)

\* C6 up to three qubits, where the block is an exact controlled phase
C6_UpToThreeQubits ==
    (self # <<>> /\ self[1].kind = "grover" /\ self[1].n_qubits \in 1..3) =>
        FlipsExactly(OracleOps(self[1]), self[1].n_qubits, self[1].target)

\* ---------------------------------------------------------------------- C7
\* value of a string of '0'/'1' read as an unsigned binary integer; the
\* character at 0-based position Len-1-i weighs 2^i
BinaryValue(str) ==
    LET ones == {i \in 0..(Len(str) - 1) : str[Len(str) - i] = "1"}
        RECURSIVE Sum(_)
        Sum(S) == IF S = {} THEN 0
                  ELSE LET i == CHOOSE x \in S : TRUE IN 2 ^ i + Sum(S \ {i})
    IN Sum(ones)

\* C7: for n >= 1 and s < 2^n, secret_as_binary() has exactly n characters,
\* each '0' or '1', most significant first, of binary value s; the character
\* at position n-1-i is bit i of s, the bit that decides whether build()
\* emits CX(i -> ancilla).
C7_SecretAsBinary ==
    (binary # <<>> /\ binary[1].from.n_qubits >= 1) =>
        LET n == binary[1].from.n_qubits
            s == binary[1].from.secret
            str == binary[1].str
            ops == BVBuild(binary[1].from).ops
        IN /\ Len(str) = n
           /\ \A j \in 1..Len(str) : str[j] \in {"0", "1"}
           /\ BinaryValue(str) = s
           /\ \A i \in 0..(n - 1) :
                 /\ (str[n - i] = "1") <=> (BitOf(s, i) = 1)
                 /\ (str[n - i] = "1") <=>
                       (\E j \in 1..Len(ops) : ops[j] = Gate("cx", <<i, n>>))

C7_Witness ==
    /\ binary # <<>>
    /\ binary[1].from.n_qubits = 4
    /\ binary[1].from.secret = 5
    /\ binary[1].str = <<"0", "1", "0", "1">>

\* ---------------------------------------------------------------------- C8
\* C8: is_constant(m) is true iff every character of the nonempty string m is
\* '0'; a string with a non-'0' character anywhere is balanced (false).
C8_IsConstant ==
    (verdict # <<>> /\ Len(verdict[1].measurement) >= 1) =>
        LET m == verdict[1].measurement IN
        /\ verdict[1].constant <=> (\A j \in 1..Len(m) : m[j] = "0")
        /\ (\E j \in 1..Len(m) : m[j] # "0") => ~verdict[1].constant

C8_Witness ==
    /\ verdict # <<>>
    /\ verdict[1].measurement = <<"0", "0", "1">>
    /\ verdict[1].constant = FALSE

\* ---------------------------------------------------------------------- C9
\* k is round(pi/4 * sqrt(N)): 2(2k-1) <= pi*sqrt(N) < 2(2k+1), decided on
\* squares with 333/106 < pi < 355/113
IsRoundQuarterPiSqrt(k, N) ==
    /\ k >= 1 => 4 * (2 * k - 1) * (2 * k - 1) * 106 * 106 <= 333 * 333 * N
    /\ 355 * 355 * N < 4 * (2 * k + 1) * (2 * k + 1) * 113 * 113

\* C9: for n >= 1, optimal_iterations() = max(1, round(pi/4 * sqrt(2^n))): at
\* least 1, a function of n alone, 2 for n = 3 and 3 for n = 4. (For n >= 2
\* the value pi/4 * sqrt(2^n) is at least pi/2, so the claimed result is >= 2.)
C9_OptimalIterations ==
    (optimal # <<>> /\ optimal[1].from.n_qubits >= 1) =>
        LET n == optimal[1].from.n_qubits
            v == optimal[1].value
        IN /\ v >= 1
           /\ n = 3 => v = 2
           /\ n = 4 => v = 3
           /\ n >= 2 => v >= 2
           /\ n <= MaxN =>
                 \E k \in 0..v : IsRoundQuarterPiSqrt(k, 2 ^ n) /\ v = Max(k, 1)

\* C9 below the word width
C9_BelowWidth ==
    (optimal # <<>> /\ optimal[1].from.n_qubits < UsizeBits) => C9_OptimalIterations

\* --------------------------------------------------------------------- C10
XCount(ops, q) == Cardinality({j \in 1..Len(ops) : ops[j] = Gate("x", <<q>>)})
XTotal(ops) == Cardinality({j \in 1..Len(ops) : ops[j].op = "x"})

\* ops is X on exactly the qubits of the set S, ascending
IsXRun(ops, S) ==
    /\ Len(ops) = Cardinality(S)
    /\ \A j \in 1..Len(ops) : ops[j].op = "x" /\ ops[j].qs[1] \in S
    /\ \A j \in 1..(Len(ops) - 1) : ops[j].qs[1] < ops[j + 1].qs[1]

IsHRun(ops, n) == ops = [j \in 1..n |-> Gate("h", <<j - 1>>)]

\* C10: each oracle step is X on exactly the 0 bits of the target (ascending),
\* the multi-controlled-Z block, X on the same qubits; each diffusion step is
\* H on all, X on all, the block, X on all, H on all. So every qubit gets an
\* even number of X per step, the oracle has 2*(n - popcount(target)) X gates
\* and the all-ones target gives an oracle without X.
C10_Sandwich ==
    (built # <<>> /\ built[1].from.kind = "grover") =>
        LET s == built[1].from
            n == s.n_qubits
            ops == built[1].circuit.ops
            k == ChosenK(built[1])
            blk == StepOps(GroverMultiControlledZ(s, CircuitNew(n)))
            B == Len(blk)
            zs == ZeroBits(s.target, n)
            z == Cardinality(zs)
            w == 2 * z + 4 * n + 2 * B
        IN /\ Len(ops) = n + k * w + 1
           /\ XTotal(blk) = 0
           /\ \A r \in 0..(k - 1) :
                LET o0 == n + r * w
                    d0 == o0 + 2 * z + B
                    orc == SubSeq(ops, o0 + 1, d0)
                    dif == SubSeq(ops, d0 + 1, o0 + w)
                IN /\ IsXRun(SubSeq(orc, 1, z), zs)
                   /\ SubSeq(orc, z + 1, z + B) = blk
                   /\ IsXRun(SubSeq(orc, z + B + 1, 2 * z + B), zs)
                   /\ IsHRun(SubSeq(dif, 1, n), n)
                   /\ IsXRun(SubSeq(dif, n + 1, 2 * n), 0..(n - 1))
                   /\ SubSeq(dif, 2 * n + 1, 2 * n + B) = blk
                   /\ IsXRun(SubSeq(dif, 2 * n + B + 1, 3 * n + B), 0..(n - 1))
                   /\ IsHRun(SubSeq(dif, 3 * n + B + 1, 4 * n + B), n)
                   /\ \A q \in 0..(n - 1) :
                         XCount(orc, q) % 2 = 0 /\ XCount(dif, q) % 2 = 0
                   /\ XTotal(orc) = 2 * (n - Cardinality(OneBits(s.target, n)))
                   /\ (n <= MaxN /\ s.target = 2 ^ n - 1) => XTotal(orc) = 0

C10_Witness ==
    /\ built # <<>>
    /\ built[1].from.kind = "grover"
    /\ built[1].from.n_qubits = 3
    /\ built[1].from.target = 5
    /\ ChosenK(built[1]) = 2

\* --------------------------------------------------------------------- C11
\* the block the claim gives for n qubits
C11_Block(n) ==
    CASE n \in {0, 1} -> <<Gate("z", <<0>>)>>
      [] n = 2 -> <<Gate("h", <<1>>), Gate("cx", <<0, 1>>), Gate("h", <<1>>)>>
      [] n = 3 -> <<Gate("h", <<2>>), Gate("ccx", <<0, 1, 2>>), Gate("h", <<2>>)>>
      [] OTHER -> [j \in 1..(n + 1) |->
                     IF j = 1 \/ j = n + 1 THEN Gate("h", <<n - 1>>)
                     ELSE Gate("cx", <<j - 2, n - 1>>)]

\* number of qubits below the last one that are 1 in basis state b
OnesBelowLast(b, n) == Cardinality({i \in 0..(n - 2) : QBit(b, i) = 1})

\* the gate sequence flips the phase of exactly the basis states in flipped
FlipsSet(ops, n, flipped) ==
    \A b \in 0..(2 ^ n - 1) :
        RunFrom(ops, 1, Basis(n, b)) =
            Scaled(Basis(n, b),
                   (IF b \in flipped THEN -1 ELSE 1) * 2 ^ (HCount(ops) \div 2))

\* The state a build() call leaves when no other helper ran before or since.
\* Every sequence build() can return is held by such a state, so a property of
\* the built sequence alone needs its amplitudes simulated only there.
JustBuilt == built # <<>> /\ optimal = <<>> /\ requested = built[1].requested

C11_ExactUpToThree ==
    (built # <<>> /\ built[1].from.kind = "grover"
        /\ built[1].from.n_qubits \in 1..3 /\ ChosenK(built[1]) >= 1) =>
        LET n == built[1].from.n_qubits
            z == Cardinality(ZeroBits(built[1].from.target, n))
            got == SubSeq(built[1].circuit.ops, n + z + 1, n + z + Len(C11_Block(n)))
        IN FlipsSet(got, n, {2 ^ n - 1})

====
